---- MODULE Spec2Model ----
(***************************************************************************)
(* snmp_usm::SecurityParams: the six-field record, its builder setters,    *)
(* and its wire codec (DER on encode, BER on decode) as written in         *)
(* src/snmp_usm/src/security_params.rs.  Byte strings are sequences of     *)
(* 0..255.  The yasna calls made by encode and decode are modelled at the  *)
(* byte level, one operator per call.                                      *)
(***************************************************************************)
EXTENDS Integers, Sequences, FiniteSets, TLC

VARIABLES sp, op, arg, ret, pre, pc, loc

vars == <<sp, op, arg, ret, pre, pc, loc>>

(***************************************************************************)
(* Machine integers.  i32 values are TLA+ integers in MinI32..MaxI32.  An  *)
(* i64 is kept as its 8 big-endian two's complement bytes, so that wire    *)
(* integers beyond 32 bits can be read and range-checked.                  *)
(***************************************************************************)
MaxI32 == 2147483647

MinI32 == -MaxI32 - 1

\* val >> k on a sign-extended i32 (arithmetic shift, k up to 63)
Shr(val, k) == IF k >= 31 THEN (IF val < 0 THEN -1 ELSE 0) ELSE val \div (2^k)

\* b as i8
AsI8(b) == IF b >= 128 THEN b - 256 ELSE b

Repeat(b, n) == [i \in 1..n |-> b]

(***************************************************************************)
(* yasna DER writer, as called from encode.                                *)
(***************************************************************************)
TAG_INTEGER == 2

TAG_OCTETSTRING == 4

TAG_SEQUENCE == 16

TAG_EOC == 0

PRIMITIVE == 0

CONSTRUCTED == 1

\* identifier octet of a universal tag below 31
write_identifier(tag, pcbit) == <<pcbit * 32 + tag>>

RECURSIVE PushShifted(_, _)
\* loop { buf.push((val >> shiftnum) as u8); if shiftnum == 0 {break} shiftnum -= 8 }
PushShifted(val, shiftnum) ==
    <<Shr(val, shiftnum) % 256>>
        \o (IF shiftnum = 0 THEN <<>> ELSE PushShifted(val, shiftnum - 8))

RECURSIVE LengthShift(_, _)
\* while (length >> shiftnum) == 0 { shiftnum -= 8 }
LengthShift(length, shiftnum) ==
    IF Shr(length, shiftnum) = 0 THEN LengthShift(length, shiftnum - 8) ELSE shiftnum

write_length(length) ==
    IF length < 128 THEN <<length>>
    ELSE LET shiftnum == LengthShift(length, 56)
         IN  <<128 + (shiftnum \div 8 + 1)>> \o PushShifted(length, shiftnum)

RECURSIVE IntShiftUnsigned(_, _)
\* IntShift testing val >> shiftnum: the sign bit of the top byte is not kept
IntShiftUnsigned(val, shiftnum) ==
    IF shiftnum > 0 /\ (Shr(val, shiftnum) = 0 \/ Shr(val, shiftnum) = -1)
    THEN IntShiftUnsigned(val, shiftnum - 8)
    ELSE shiftnum

RECURSIVE IntShift(_, _)
\* while shiftnum > 0 && (val >> (shiftnum-1) == 0 || val >> (shiftnum-1) == -1)
IntShift(val, shiftnum) ==
    IF shiftnum > 0 /\ (Shr(val, shiftnum - 1) = 0 \/ Shr(val, shiftnum - 1) = -1)
    THEN IntShift(val, shiftnum - 8)
    ELSE shiftnum

write_i64(val) ==
    LET shiftnum == IntShift(val, 56)
    IN  write_identifier(TAG_INTEGER, PRIMITIVE)
            \o write_length(shiftnum \div 8 + 1)
            \o PushShifted(val, shiftnum)

write_i32(val) == write_i64(val)

write_bytes(bytes) ==
    write_identifier(TAG_OCTETSTRING, PRIMITIVE) \o write_length(Len(bytes)) \o bytes

\* write_sequence with the constructed bit left out of the identifier
write_sequence_primitive(contents) ==
    write_identifier(TAG_SEQUENCE, PRIMITIVE) \o write_length(Len(contents)) \o contents

write_sequence(contents) ==
    write_identifier(TAG_SEQUENCE, CONSTRUCTED) \o write_length(Len(contents)) \o contents

(***************************************************************************)
(* yasna BER reader, as called from decode.  A reader position is (buf,    *)
(* lim, pos): the whole input, the end of the element being read, and the  *)
(* 0-based index of the next byte.  A failure keeps the position the       *)
(* reader stopped at, which read_optional compares with where it started.  *)
(***************************************************************************)
Fail(kind, pos) == [ok |-> FALSE, err |-> kind, pos |-> pos]

\* digits of a base-128 or base-256 number, leading zeros dropped
PushDigit(digits, d) == IF digits = <<>> /\ d = 0 THEN <<>> ELSE Append(digits, d)

RECURSIVE read_high_tag(_, _, _, _)
\* the loop of read_identifier for tag numbers >= 31; tag_number is a u64
read_high_tag(buf, lim, pos, digits) ==
    IF pos >= lim THEN Fail("Eof", pos)
    ELSE LET b == buf[pos + 1]
             overflow == Len(digits) >= 10 \/ (Len(digits) = 9 /\ digits[1] >= 2)
             next == PushDigit(digits, b % 128)
         IN  IF overflow THEN Fail("IntegerOverflow", pos + 1)
             ELSE IF b >= 128 THEN read_high_tag(buf, lim, pos + 1, next)
             ELSE IF next = <<>> \/ (Len(next) = 1 /\ next[1] < 31)
                  THEN Fail("Invalid", pos + 1)
                  ELSE [ok |-> TRUE, pos |-> pos + 1]

\* num = 31 stands for any tag number >= 31
Identifier(h, class, pcbit) ==
    IF h.ok THEN [ok |-> TRUE, pos |-> h.pos, class |-> class, pc |-> pcbit, num |-> 31]
    ELSE h

\* tag class, P/C bit and tag number
read_identifier(buf, lim, pos) ==
    IF pos >= lim THEN Fail("Eof", pos)
    ELSE LET tagbyte == buf[pos + 1]
             class == tagbyte \div 64
             pcbit == (tagbyte \div 32) % 2
             num == tagbyte % 32
         IN  IF num = 31
             THEN Identifier(read_high_tag(buf, lim, pos + 1, <<>>), class, pcbit)
             ELSE [ok |-> TRUE, pos |-> pos + 1, class |-> class,
                   pc |-> pcbit, num |-> num]

RECURSIVE read_length_bytes(_, _, _, _, _)
\* for _ in 0..(lbyte0 & 0x7F): length is a usize, kept as base-256 digits
read_length_bytes(buf, lim, pos, n, digits) ==
    IF n = 0 THEN [ok |-> TRUE, pos |-> pos, digits |-> digits]
    ELSE IF Len(digits) >= 8 THEN Fail("Eof", pos)
    ELSE IF pos >= lim THEN Fail("Eof", pos)
    ELSE read_length_bytes(buf, lim, pos + 1, n - 1, PushDigit(digits, buf[pos + 1]))

RECURSIVE DigitsValue(_)
DigitsValue(digits) ==
    IF digits = <<>> THEN 0
    ELSE DigitsValue(SubSeq(digits, 1, Len(digits) - 1)) * 256 + digits[Len(digits)]

Length(pos, indef, big, len) ==
    [ok |-> TRUE, pos |-> pos, indef |-> indef, big |-> big, len |-> len]

\* A length of four or more significant bytes is past the end of every input
\* here: big, with no number kept.
LongLength(r) ==
    IF ~r.ok THEN r
    ELSE IF Len(r.digits) > 3 THEN Length(r.pos, FALSE, TRUE, 0)
    ELSE Length(r.pos, FALSE, FALSE, DigitsValue(r.digits))

\* BER mode: long-form lengths need not be minimal; 0x80 is indefinite
read_length(buf, lim, pos) ==
    IF pos >= lim THEN Fail("Eof", pos)
    ELSE LET lbyte0 == buf[pos + 1]
         IN  IF lbyte0 = 128 THEN Length(pos + 1, TRUE, FALSE, 0)
             ELSE IF lbyte0 = 255 THEN Fail("Invalid", pos + 1)
             ELSE IF lbyte0 < 128 THEN Length(pos + 1, FALSE, FALSE, lbyte0)
             ELSE LongLength(read_length_bytes(buf, lim, pos + 1, lbyte0 % 128, <<>>))

\* read_general once the length is read: the limit of the contents
Contents(lim, pcbit, ln) ==
    IF ~ln.ok THEN ln
    ELSE IF ln.indef
    THEN IF pcbit # CONSTRUCTED THEN Fail("Invalid", ln.pos)
         ELSE [ok |-> TRUE, pc |-> pcbit, pos |-> ln.pos, lim |-> lim, indef |-> TRUE]
    ELSE IF ln.big \/ lim < ln.pos + ln.len THEN Fail("Eof", ln.pos)
    ELSE [ok |-> TRUE, pc |-> pcbit, pos |-> ln.pos, lim |-> ln.pos + ln.len,
          indef |-> FALSE]

\* read_general once the identifier is read: a tag mismatch rewinds to old_pos
TagCheck(buf, lim, old_pos, tag, id) ==
    IF ~id.ok THEN id
    ELSE IF ~(id.class = 0 /\ id.num = tag) THEN Fail("Invalid", old_pos)
    ELSE Contents(lim, id.pc, read_length(buf, lim, id.pos))

\* read_general up to its callback: identifier, tag check, length, limit.
\* Its depth test (more than 100 nested elements is an error) is left out: no
\* input here nests deeper than three.
read_general(buf, lim, pos, tag) ==
    TagCheck(buf, lim, pos, tag, read_identifier(buf, lim, pos))

end_of_buf(lim, pos) ==
    IF pos = lim THEN [ok |-> TRUE, pos |-> pos] ELSE Fail("Extra", pos)

EocCheck(buf, lim, id) ==
    IF ~id.ok THEN id
    ELSE IF ~(id.class = 0 /\ id.num = TAG_EOC) \/ id.pc # PRIMITIVE
    THEN Fail("Invalid", id.pos)
    ELSE IF id.pos >= lim THEN Fail("Eof", id.pos)
    ELSE IF buf[id.pos + 1] # 0 THEN Fail("Invalid", id.pos + 1)
    ELSE [ok |-> TRUE, pos |-> id.pos + 1]

end_of_contents(buf, lim, pos) == EocCheck(buf, lim, read_identifier(buf, lim, pos))

\* read_general after its callback returned r: Ok(r.val) if the contents end there
read_general_end(buf, h, r) ==
    IF ~r.ok THEN r
    ELSE IF h.indef /\ ~end_of_contents(buf, h.lim, r.pos).ok
    THEN end_of_contents(buf, h.lim, r.pos)
    ELSE IF ~h.indef /\ ~end_of_buf(h.lim, r.pos).ok THEN end_of_buf(h.lim, r.pos)
    ELSE [ok |-> TRUE, val |-> r.val,
          pos |-> IF h.indef THEN r.pos + 2 ELSE r.pos]

RECURSIVE read_bytes_impl(_, _, _)
RECURSIVE read_segments(_, _, _, _)
RECURSIVE Segment(_, _, _, _, _)
RECURSIVE OctetContents(_, _)
\* read_optional: a segment read that failed without moving ends the loop
Segment(buf, lim, pos, vec, r) ==
    IF r.ok THEN read_segments(buf, lim, r.pos, vec \o r.val)
    ELSE IF r.pos = pos THEN [ok |-> TRUE, pos |-> pos, val |-> vec]
    ELSE r

\* the loop over read_optional in a constructed OCTET STRING
read_segments(buf, lim, pos, vec) ==
    Segment(buf, lim, pos, vec, read_bytes_impl(buf, lim, pos))

\* the callback of read_bytes_impl: the bytes, or the segments' bytes in BER
OctetContents(buf, h) ==
    IF ~h.ok THEN h
    ELSE IF h.pc = PRIMITIVE
    THEN [ok |-> TRUE, pos |-> h.lim, val |-> SubSeq(buf, h.pos + 1, h.lim)]
    ELSE read_general_end(buf, h, read_segments(buf, h.lim, h.pos, <<>>))

read_bytes_impl(buf, lim, pos) ==
    OctetContents(buf, read_general(buf, lim, pos, TAG_OCTETSTRING))

read_bytes(buf, lim, pos) == read_bytes_impl(buf, lim, pos)

RECURSIVE ShiftIn(_, _)
\* for &b in buf[2..] { x = (x << 8) | b } on the 8 bytes of an i64
ShiftIn(reg, rest) ==
    IF rest = <<>> THEN reg ELSE ShiftIn(Tail(reg) \o <<rest[1]>>, Tail(rest))

\* the 8 bytes of (b as i8 as i64)
SignExtend(b) == Repeat(IF b >= 128 THEN 255 ELSE 0, 7) \o <<b>>

\* the callback of read_i64
IntegerContents(buf, h) ==
    IF ~h.ok THEN h
    ELSE IF h.pc # PRIMITIVE THEN Fail("Invalid", h.pos)
    ELSE LET c == SubSeq(buf, h.pos + 1, h.lim)
         IN  IF Len(c) = 0 THEN Fail("Invalid", h.lim)
             ELSE IF Len(c) = 1
             THEN [ok |-> TRUE, pos |-> h.lim, val |-> SignExtend(c[1])]
             ELSE IF -128 <= AsI8(c[1]) * 256 + c[2] /\ AsI8(c[1]) * 256 + c[2] < 128
             THEN Fail("Invalid", h.lim)
             ELSE IF Len(c) > 8 THEN Fail("IntegerOverflow", h.lim)
             ELSE [ok |-> TRUE, pos |-> h.lim,
                   val |-> ShiftIn(Tail(SignExtend(c[1])) \o <<c[2]>>,
                                   SubSeq(c, 3, Len(c)))]

read_i64(buf, lim, pos) == IntegerContents(buf, read_general(buf, lim, pos, TAG_INTEGER))

\* -(1 << 31) <= val && val < (1 << 31), on the 8 bytes of val
FitsI32(reg) ==
    \/ (\A i \in 1..4 : reg[i] = 0) /\ reg[5] < 128
    \/ (\A i \in 1..4 : reg[i] = 255) /\ reg[5] >= 128

\* val as i32: the low 4 bytes
AsI32(reg) == AsI8(reg[5]) * 16777216 + reg[6] * 65536 + reg[7] * 256 + reg[8]

\* RangeCheck without the range test: val as i32 wraps
RangeCheckWrapping(r) ==
    IF ~r.ok THEN r ELSE [ok |-> TRUE, pos |-> r.pos, val |-> AsI32(r.val)]

\* if in range { Ok(val as i32) } else { Err(IntegerOverflow) }
RangeCheck(r) ==
    IF ~r.ok THEN r
    ELSE IF FitsI32(r.val) THEN [ok |-> TRUE, pos |-> r.pos, val |-> AsI32(r.val)]
    ELSE Fail("IntegerOverflow", r.pos)

read_i32(buf, lim, pos) == RangeCheck(read_i64(buf, lim, pos))

(***************************************************************************)
(* SecurityParams: the record and its public operations.                   *)
(***************************************************************************)
AUTH_PARAMS_PLACEHOLDER == Repeat(0, 12)

\* #[derive(Default)]
Default ==
    [engine_id |-> <<>>, engine_boots |-> 0, engine_time |-> 0,
     username |-> <<>>, auth_params |-> <<>>, priv_params |-> <<>>]

new == Default

discovery == Default

\* ClearExtend without the clear()
ExtendOnly(vec, s) == vec \o s

\* clear(); extend_from_slice(s)
ClearExtend(vec, s) == <<>> \o s

set_engine_id(self, engine_id) ==
    [self EXCEPT !.engine_id = ClearExtend(@, engine_id)]

\* set_engine_boots without the clamp
set_engine_boots_unclamped(self, engine_boots) ==
    [self EXCEPT !.engine_boots = engine_boots]

set_engine_boots(self, engine_boots) ==
    [self EXCEPT !.engine_boots = IF engine_boots < 0 THEN 0 ELSE engine_boots]

\* set_engine_time clamping only -1
set_engine_time_minus_one(self, engine_time) ==
    [self EXCEPT !.engine_time = IF engine_time = -1 THEN 0 ELSE engine_time]

set_engine_time(self, engine_time) ==
    [self EXCEPT !.engine_time = IF engine_time < 0 THEN 0 ELSE engine_time]

set_username(self, username) ==
    [self EXCEPT !.username = ClearExtend(@, username)]

set_auth_params(self, auth_params) ==
    [self EXCEPT !.auth_params = ClearExtend(@, auth_params)]

set_auth_params_placeholder(self) == set_auth_params(self, AUTH_PARAMS_PLACEHOLDER)

set_priv_params(self, priv_params) ==
    [self EXCEPT !.priv_params = ClearExtend(@, priv_params)]

\* encode writing priv_params before auth_params
encode_swapped(self) ==
    write_sequence(
        write_bytes(self.engine_id)
            \o write_i32(self.engine_boots)
            \o write_i32(self.engine_time)
            \o write_bytes(self.username)
            \o write_bytes(self.priv_params)
            \o write_bytes(self.auth_params))

\* yasna::construct_der(|writer| writer.write_sequence(...))
encode(self) ==
    write_sequence(
        write_bytes(self.engine_id)
            \o write_i32(self.engine_boots)
            \o write_i32(self.engine_time)
            \o write_bytes(self.username)
            \o write_bytes(self.auth_params)
            \o write_bytes(self.priv_params))

\* NegativeCounter with <= in place of <
NonPositiveCounter(engine_boots, engine_time) == engine_boots <= 0 \/ engine_time <= 0

\* NegativeCounter testing engine_boots alone
NegativeBoots(engine_boots, engine_time) == engine_boots < 0

\* if engine_boots < 0 || engine_time < 0 { return Err(Invalid) }
NegativeCounter(engine_boots, engine_time) == engine_boots < 0 \/ engine_time < 0

\* the closure given to read_sequence reads six elements in order; each
\* operator below is the closure from one read on, acc holding what was read
PrivParamsRead(acc, r) ==
    IF ~r.ok THEN r
    ELSE [ok |-> TRUE, pos |-> r.pos,
          val |-> [engine_id |-> acc.engine_id,
                   engine_boots |-> acc.engine_boots,
                   engine_time |-> acc.engine_time,
                   username |-> acc.username,
                   auth_params |-> acc.auth_params,
                   priv_params |-> r.val]]

AuthParamsRead(buf, lim, acc, r) ==
    IF ~r.ok THEN r
    ELSE PrivParamsRead([acc EXCEPT !.auth_params = r.val], read_bytes(buf, lim, r.pos))

UsernameRead(buf, lim, acc, r) ==
    IF ~r.ok THEN r
    ELSE AuthParamsRead(buf, lim, [acc EXCEPT !.username = r.val],
                        read_bytes(buf, lim, r.pos))

EngineTimeRead(buf, lim, acc, r) ==
    IF ~r.ok THEN r
    ELSE IF NegativeCounter(acc.engine_boots, r.val) THEN Fail("Invalid", r.pos)
    ELSE UsernameRead(buf, lim, [acc EXCEPT !.engine_time = r.val],
                      read_bytes(buf, lim, r.pos))

EngineBootsRead(buf, lim, acc, r) ==
    IF ~r.ok THEN r
    ELSE EngineTimeRead(buf, lim, [acc EXCEPT !.engine_boots = r.val],
                        read_i32(buf, lim, r.pos))

EngineIdRead(buf, lim, r) ==
    IF ~r.ok THEN r
    ELSE EngineBootsRead(buf, lim, [Default EXCEPT !.engine_id = r.val],
                         read_i32(buf, lim, r.pos))

read_fields(buf, lim, pos) == EngineIdRead(buf, lim, read_bytes(buf, lim, pos))

\* the callback of read_sequence runs on constructed contents only
SequenceContents(buf, h) ==
    IF ~h.ok THEN h
    ELSE IF h.pc # CONSTRUCTED THEN Fail("Invalid", h.pos)
    ELSE read_general_end(buf, h, read_fields(buf, h.lim, h.pos))

\* reader.read_sequence(|reader| ...)
read_sequence(buf, lim, pos) ==
    SequenceContents(buf, read_general(buf, lim, pos, TAG_SEQUENCE))

\* Finish without the end-of-input test
FinishAnywhere(buf, r) == r

\* nothing may be left after the value
Finish(buf, r) ==
    IF ~r.ok THEN r
    ELSE IF ~end_of_buf(Len(buf), r.pos).ok THEN end_of_buf(Len(buf), r.pos)
    ELSE r

\* yasna::parse_ber(buf, ...)
parse_ber(buf) == Finish(buf, read_sequence(buf, Len(buf), 0))

Ok(val) == [kind |-> "Ok", val |-> val]

Err(error) == [kind |-> "Err", err |-> error]

MapErr(result) ==
    IF result.ok THEN Ok(result.val) ELSE Err("MalformedSecurityParams")

\* result.map_err(|_| SecurityError::MalformedSecurityParams)
decode(buf) == MapErr(parse_ber(buf))

(***************************************************************************)
(* Inputs.  Wire inputs are assembled from tag-length-value elements by    *)
(* Tlv below, which is not the writer above: it builds the byte strings a  *)
(* peer could send, in DER and in other BER forms.                         *)
(***************************************************************************)
MaxArgLen == 1

LongLen == 128

MaxTrail == 2

MaxExtra == 2

\* b"username"
Username == <<117, 115, 101, 114, 110, 97, 109, 101>>

\* the engine ID of the sample message
SampleEngineId == <<128, 0, 31, 136, 128, 250, 168, 17, 96, 15, 162, 197, 94, 0, 0, 0, 0>>

\* the 35-byte sample message
Sample ==
    <<48, 33, 4, 17, 128, 0, 31, 136, 128, 250, 168, 17, 96, 15, 162, 197, 94, 0, 0, 0, 0,
      2, 1, 24, 2, 3, 1, 133, 252, 4, 0, 4, 0, 4, 0>>

\* the 55 bytes expected from the sample with username and placeholder set
SampleExpected ==
    <<48, 53, 4, 17, 128, 0, 31, 136, 128, 250, 168, 17, 96, 15, 162, 197, 94, 0, 0, 0, 0,
      2, 1, 24, 2, 3, 1, 133, 252, 4, 8, 117, 115, 101, 114, 110, 97, 109, 101,
      4, 12, 0, 0, 0, 0, 0, 0, 0, 0, 0, 0, 0, 0, 4, 0>>

\* the 16 bytes expected from discovery()
DiscoveryExpected == <<48, 14, 4, 0, 2, 1, 0, 2, 1, 0, 4, 0, 4, 0, 4, 0>>

NegativeBootsInput == <<48, 14, 4, 0, 2, 1, 255, 2, 1, 0, 4, 0, 4, 0, 4, 0>>

NegativeTimeInput == <<48, 14, 4, 0, 2, 1, 0, 2, 1, 255, 4, 0, 4, 0, 4, 0>>

Long == [i \in 1..LongLen |-> i % 256]

Longer == [i \in 1..(2 * LongLen) |-> (3 * i) % 256]

\* arguments of the byte-field setters: the prefixes of b"username"
ByteArgs == {SubSeq(Username, 1, k) : k \in 0..MaxArgLen}

\* arguments of the counter setters: i32 values around 0 and at both ends
IntArgs == {MinI32, -1, 0, 1, MaxI32}

GenLen(n) ==
    IF n < 128 THEN <<n>>
    ELSE IF n < 256 THEN <<129, n>>
    ELSE <<130, n \div 256, n % 256>>

Tlv(tagbyte, content) == <<tagbyte>> \o GenLen(Len(content)) \o content

RECURSIVE Concat(_)
Concat(ss) == IF ss = <<>> THEN <<>> ELSE ss[1] \o Concat(Tail(ss))

\* an OCTET STRING in constructed form: two primitive segments
Segmented(content) ==
    LET h == Len(content) \div 2
    IN  Tlv(36, Tlv(4, SubSeq(content, 1, h)) \o Tlv(4, SubSeq(content, h + 1, Len(content))))

\* the six elements on the wire; bc and tc are the contents of the two INTEGERs
Elements(e, bc, tc, u, a, p, form) ==
    <<Tlv(4, e), Tlv(2, bc), Tlv(2, tc),
      IF form = "segmented" THEN Segmented(u) ELSE Tlv(4, u),
      Tlv(4, a), Tlv(4, p)>>

\* a SEQUENCE of the elements: DER, indefinite length, or a padded long length
Wire(elems, form) ==
    LET content == Concat(elems)
    IN  IF form = "indefinite" THEN <<48, 128>> \o content \o <<0, 0>>
        ELSE IF form = "longlen"
        THEN <<48, 131, 0, Len(content) \div 256, Len(content) % 256>> \o content
        ELSE Tlv(48, content)

Forms == {"der", "indefinite", "longlen", "segmented"}

\* contents of wire INTEGERs, all minimal two's complement:
\* 0 .. 2^31 - 1
IntInRange ==
    {<<0>>, <<1>>, <<24>>, <<127>>, <<0, 128>>, <<0, 255>>, <<1, 0>>, <<127, 255>>,
     <<0, 128, 0>>, <<1, 133, 252>>, <<127, 255, 255>>, <<0, 128, 0, 0>>,
     <<127, 255, 255, 255>>}

\* -2^31 .. -1
IntNegative ==
    {<<255>>, <<128>>, <<255, 127>>, <<128, 0>>, <<255, 127, 255>>, <<128, 0, 0, 0>>}

\* above 2^31 - 1: 2^31, 2^32 - 1, 2^32, 2^32 + 24, 2^63 - 1, 2^63, 2^64
IntAbove ==
    {<<0, 128, 0, 0, 0>>, <<0, 255, 255, 255, 255>>, <<1, 0, 0, 0, 0>>, <<1, 0, 0, 0, 24>>,
     <<127, 255, 255, 255, 255, 255, 255, 255>>, <<0, 128, 0, 0, 0, 0, 0, 0, 0>>,
     <<1, 0, 0, 0, 0, 0, 0, 0, 0>>}

\* below -2^31: -2^31 - 1, -2^32, -2^63, -2^63 - 1
IntBelow ==
    {<<255, 127, 255, 255, 255>>, <<255, 0, 0, 0, 0>>, <<128, 0, 0, 0, 0, 0, 0, 0>>,
     <<255, 127, 255, 255, 255, 255, 255, 255, 255>>}

IntContents == IntInRange \cup IntNegative \cup IntAbove \cup IntBelow

\* the integer a minimal content of at most 4 bytes stands for
RECURSIVE WireValue(_)
WireValue(c) ==
    IF Len(c) = 1 THEN AsI8(c[1])
    ELSE WireValue(SubSeq(c, 1, Len(c) - 1)) * 256 + c[Len(c)]

WireNegative(c) == c[1] >= 128

\* a minimal content is within 32 bits exactly when it has at most 4 bytes
WireFitsI32(c) == Len(c) <= 4

\* the four byte fields of a wire input
FieldChoices ==
    {[e |-> <<>>, u |-> <<>>, a |-> <<>>, p |-> <<>>],
     [e |-> SampleEngineId, u |-> <<>>, a |-> <<>>, p |-> <<>>],
     [e |-> SampleEngineId, u |-> Username, a |-> AUTH_PARAMS_PLACEHOLDER,
      p |-> <<1, 2, 3, 4, 5, 6, 7, 8>>],
     [e |-> Long, u |-> <<4, 0>>, a |-> <<48, 128>>, p |-> <<255>>]}

Six(f, bc, tc, form) ==
    [fam |-> "six", e |-> f.e, bc |-> bc, tc |-> tc, u |-> f.u, a |-> f.a, p |-> f.p,
     form |-> form,
     bytes |-> Wire(Elements(f.e, bc, tc, f.u, f.a, f.p, form), form)]

\* six-element SEQUENCEs with every pair of counters
SixInputs ==
    {Six(f, bc, tc, form) : f \in FieldChoices, bc \in IntContents, tc \in IntContents,
                            form \in Forms}

Raw(fam, bytes) == [fam |-> fam, bytes |-> bytes]

\* valid encodings that the malformed families below are cut from
Valid ==
    {Sample, DiscoveryExpected,
     Wire(Elements(<<7>>, <<1>>, <<0, 128>>, <<8, 9>>, <<>>, <<10>>, "segmented"), "indefinite")}

\* proper prefixes of valid encodings, the empty input among them
PrefixInputs == UNION {{Raw("prefix", SubSeq(w, 1, k)) : k \in 0..(Len(w) - 1)} : w \in Valid}

\* a valid encoding followed by 1..MaxTrail more bytes
TrailingInputs ==
    {Raw("trailing", w \o t) : w \in Valid,
     t \in UNION {[1..n -> {0, 4}] : n \in 1..MaxTrail}}

\* a valid encoding under an identifier that is not a constructed SEQUENCE:
\* SET, primitive SEQUENCE, OCTET STRING, INTEGER, application 16, context 16, private 16
OuterTags == {49, 16, 4, 2, 36, 112, 176, 240}

NotSequenceInputs ==
    {Raw("notseq", <<t>> \o Tail(w)) : w \in {Sample, DiscoveryExpected}, t \in OuterTags}

SampleElements == Elements(SampleEngineId, <<24>>, <<1, 133, 252>>, <<1>>, <<2>>, <<3>>, "der")

\* elements appended past the sixth
ExtraElements == {<<4, 0>>, <<2, 1, 0>>, <<5, 0>>}

\* SEQUENCEs of 0..5 and of 7..6+MaxExtra elements
CountInputs ==
    {[fam |-> "count", n |-> k, bytes |-> Wire(SubSeq(SampleElements, 1, k), form)] :
        k \in 0..5, form \in {"der", "indefinite"}}
    \cup
    {[fam |-> "count", n |-> 6 + k,
      bytes |-> Wire(SampleElements \o [i \in 1..k |-> x], form)] :
        k \in 1..MaxExtra, x \in ExtraElements, form \in {"der", "indefinite"}}

\* identifiers that are neither OCTET STRING nor INTEGER: NULL, ENUMERATED,
\* UTF8String, SEQUENCE, and numbers 2 and 4 in the application, context and
\* private classes
WrongTags == {5, 10, 12, 48, 66, 68, 130, 132, 194, 196}

RetagAt(elems, i, t) == [elems EXCEPT ![i] = <<t>> \o Tail(@)]

\* position 2 and 3 expect INTEGER, the others OCTET STRING
WrongTagsAt(i) == WrongTags \cup (IF i \in {2, 3} THEN {4} ELSE {2})

\* one element of six under an identifier whose tag is not the expected one
TagInputs ==
    {[fam |-> "tag", at |-> it[1], bytes |-> Wire(RetagAt(SampleElements, it[1], it[2]), form)] :
        it \in {x \in (1..6) \X (0..255) : x[2] \in WrongTagsAt(x[1])},
        form \in {"der", "indefinite"}}

DecodeInputs ==
    SixInputs \cup PrefixInputs \cup TrailingInputs \cup NotSequenceInputs
        \cup CountInputs \cup TagInputs

(***************************************************************************)
(* The client.  sp is the record it holds, op/arg/ret the last call, its   *)
(* argument and what it returned, pre the record before the call.  pc and  *)
(* loc are the position and the locals of a scripted caller.               *)
(***************************************************************************)
NoRecord == [none |-> TRUE]

Self == [kind |-> "self"]

Bytes(b) == [kind |-> "bytes", bytes |-> b]

Call(name, a, self, r) ==
    /\ sp' = self
    /\ op' = name
    /\ arg' = a
    /\ ret' = r
    /\ pre' = sp

None == [kind |-> "none"]

Init ==
    /\ sp = new
    /\ op = "new"
    /\ arg = <<>>
    /\ ret = Ok(new)
    /\ pre = NoRecord
    /\ pc = "client"
    /\ loc = <<>>

New == Call("new", <<>>, new, Ok(new)) /\ UNCHANGED <<pc, loc>>

Discovery == Call("discovery", <<>>, discovery, Ok(discovery)) /\ UNCHANGED <<pc, loc>>

SetEngineId ==
    \E s \in ByteArgs :
        Call("set_engine_id", s, set_engine_id(sp, s), Self) /\ UNCHANGED <<pc, loc>>

SetEngineBoots ==
    \E v \in IntArgs :
        Call("set_engine_boots", v, set_engine_boots(sp, v), Self) /\ UNCHANGED <<pc, loc>>

SetEngineTime ==
    \E v \in IntArgs :
        Call("set_engine_time", v, set_engine_time(sp, v), Self) /\ UNCHANGED <<pc, loc>>

SetUsername ==
    \E s \in ByteArgs :
        Call("set_username", s, set_username(sp, s), Self) /\ UNCHANGED <<pc, loc>>

SetAuthParams ==
    \E s \in ByteArgs :
        Call("set_auth_params", s, set_auth_params(sp, s), Self) /\ UNCHANGED <<pc, loc>>

SetAuthParamsPlaceholder ==
    /\ Call("set_auth_params_placeholder", <<>>, set_auth_params_placeholder(sp), Self)
    /\ UNCHANGED <<pc, loc>>

SetPrivParams ==
    \E s \in ByteArgs :
        Call("set_priv_params", s, set_priv_params(sp, s), Self) /\ UNCHANGED <<pc, loc>>

Encode == Call("encode", <<>>, sp, Bytes(encode(sp))) /\ UNCHANGED <<pc, loc>>

\* what the client decodes: the test inputs, or the bytes it has just encoded
ClientInputs ==
    {Raw("test", b) : b \in {<<>>, Sample, NegativeBootsInput, NegativeTimeInput}}
        \cup (IF op = "encode" THEN {Raw("encoded", ret.bytes)} ELSE {})

\* let sp = SecurityParams::decode(buf)?  -- on Err the client keeps what it has
Decoded(d, r) == Call("decode", d, IF r.kind = "Ok" THEN r.val ELSE sp, r)

Decode == \E d \in ClientInputs : Decoded(d, decode(d.bytes)) /\ UNCHANGED <<pc, loc>>

Next ==
    \/ New
    \/ Discovery
    \/ SetEngineId
    \/ SetEngineBoots
    \/ SetEngineTime
    \/ SetUsername
    \/ SetAuthParams
    \/ SetAuthParamsPlaceholder
    \/ SetPrivParams
    \/ Encode
    \/ Decode

Spec == Init /\ [][Next]_vars

(***************************************************************************)
(* A caller that decodes one input, as the tests of decode do.             *)
(***************************************************************************)
Idle(at, locals) ==
    /\ sp = NoRecord
    /\ op = "none"
    /\ arg = <<>>
    /\ ret = None
    /\ pre = NoRecord
    /\ pc = at
    /\ loc = locals

InitDecode == \E d \in DecodeInputs : Idle("decode", [x |-> d])

Goto(r, then, else) == pc' = IF r.kind = "Ok" THEN then ELSE else

CallDecode ==
    /\ pc = "decode"
    /\ Decoded(loc.x, decode(loc.x.bytes))
    /\ pc' = "done"
    /\ UNCHANGED loc

NextDecode == CallDecode

SpecDecode == InitDecode /\ [][NextDecode]_vars

(***************************************************************************)
(* A caller that encodes a record, decodes the bytes and encodes again.    *)
(***************************************************************************)
\* counters 0 .. 2^31 - 1, on both sides of every change of encoded width
IntValues ==
    {0, 1, 127, 128, 255, 256, 32767, 32768, 99836, 8388607, 8388608, MaxI32}

RoundTripRecords ==
    {[engine_id |-> e, engine_boots |-> b, engine_time |-> t,
      username |-> u, auth_params |-> a, priv_params |-> p] :
        e \in {<<>>, SampleEngineId, Long, Longer},
        b \in IntValues, t \in IntValues,
        u \in {<<>>, Username},
        a \in {<<>>, AUTH_PARAMS_PLACEHOLDER},
        p \in {<<>>, Long}}

InitRoundTrip ==
    \E r \in RoundTripRecords :
        /\ sp = r
        /\ op = "none"
        /\ arg = <<>>
        /\ ret = None
        /\ pre = NoRecord
        /\ pc = "encode"
        /\ loc = [e1 |-> <<>>]

FirstEncode ==
    /\ pc = "encode"
    /\ Call("encode", <<>>, sp, Bytes(encode(sp)))
    /\ pc' = "decode"
    /\ loc' = [e1 |-> encode(sp)]

DecodeEncoded ==
    /\ pc = "decode"
    /\ Decoded(Raw("encoded", loc.e1), decode(loc.e1))
    /\ Goto(decode(loc.e1), "encode again", "failed")
    /\ UNCHANGED loc

SecondEncode ==
    /\ pc = "encode again"
    /\ Call("encode", <<>>, sp, Bytes(encode(sp)))
    /\ pc' = "done"
    /\ UNCHANGED loc

NextRoundTrip ==
    \/ FirstEncode
    \/ DecodeEncoded
    \/ SecondEncode

SpecRoundTrip == InitRoundTrip /\ [][NextRoundTrip]_vars

(***************************************************************************)
(* The caller of tests/security_params.rs, lines 21-25:                    *)
(* decode(x).unwrap().set_username(n).set_auth_params_placeholder()        *)
(* .encode()                                                               *)
(***************************************************************************)
ChainCounters == {<<0>>, <<24>>, <<0, 128>>, <<1, 133, 252>>, <<127, 255, 255, 255>>,
                  <<255>>, <<0, 128, 0, 0, 0>>}

ChainInputs == {d \in SixInputs : d.bc \in ChainCounters /\ d.tc \in ChainCounters}

Names == {<<>>, Username, Long}

InitChain ==
    \E d \in ChainInputs, n \in Names : Idle("decode", [x |-> d, n |-> n])

\* unwrap() panics on Err
ChainDecode ==
    /\ pc = "decode"
    /\ Decoded(loc.x, decode(loc.x.bytes))
    /\ Goto(decode(loc.x.bytes), "set_username", "panicked")
    /\ UNCHANGED loc

ChainSetUsername ==
    /\ pc = "set_username"
    /\ Call("set_username", loc.n, set_username(sp, loc.n), Self)
    /\ pc' = "set_auth_params_placeholder"
    /\ UNCHANGED loc

ChainSetAuthParamsPlaceholder ==
    /\ pc = "set_auth_params_placeholder"
    /\ Call("set_auth_params_placeholder", <<>>, set_auth_params_placeholder(sp), Self)
    /\ pc' = "encode"
    /\ UNCHANGED loc

ChainEncode ==
    /\ pc = "encode"
    /\ Call("encode", <<>>, sp, Bytes(encode(sp)))
    /\ pc' = "done"
    /\ UNCHANGED loc

NextChain ==
    \/ ChainDecode
    \/ ChainSetUsername
    \/ ChainSetAuthParamsPlaceholder
    \/ ChainEncode

SpecChain == InitChain /\ [][NextChain]_vars

(***************************************************************************)
(* Properties.                                                             *)
(***************************************************************************)
Malformed == Err("MalformedSecurityParams")

Empty ==
    [engine_id |-> <<>>, engine_boots |-> 0, engine_time |-> 0,
     username |-> <<>>, auth_params |-> <<>>, priv_params |-> <<>>]

ByteFields == {"engine_id", "username", "auth_params", "priv_params"}

Fields == ByteFields \cup {"engine_boots", "engine_time"}

\* C1: whatever the client has called, with whatever arguments, the record
\* it holds has engine_boots >= 0 and engine_time >= 0.
C1_CountersNonNegative == sp.engine_boots >= 0 /\ sp.engine_time >= 0

C1_Witness ==
    /\ op = "set_engine_time"
    /\ arg = MinI32
    /\ pre.engine_time = MaxI32
    /\ pre.engine_boots = 24
    /\ sp.engine_time = 0

\* C2: decode of a six-element SEQUENCE whose engine_boots or engine_time
\* INTEGER is negative returns Err(MalformedSecurityParams) and no record,
\* whatever the other elements hold and whatever BER form the input takes.
C2_NegativeRejected ==
    (op = "decode" /\ arg.fam = "six" /\ (WireNegative(arg.bc) \/ WireNegative(arg.tc)))
        => (ret = Malformed /\ sp = NoRecord)

C2_Witness ==
    /\ op = "decode"
    /\ arg.fam = "six"
    /\ arg.bc = <<24>>
    /\ arg.tc = <<255>>
    /\ arg.u = Username
    /\ arg.form = "der"
    /\ ret = Malformed

\* C3: set_engine_boots(v) and set_engine_time(v) return the record, never
\* an error, with the counter 0 when v < 0 and v otherwise.
C3_SettersClamp ==
    /\ op = "set_engine_boots"
        => (ret = Self /\ sp.engine_boots = (IF arg < 0 THEN 0 ELSE arg))
    /\ op = "set_engine_time"
        => (ret = Self /\ sp.engine_time = (IF arg < 0 THEN 0 ELSE arg))

C3_Witness ==
    /\ op = "set_engine_boots"
    /\ arg = MinI32
    /\ pre.engine_boots = MaxI32
    /\ sp.engine_boots = 0

\* C4: for a record with counters >= 0, decoding its encoding succeeds and
\* encoding the decoded record gives the first encoding again.
C4_RoundTripStable ==
    /\ pc # "failed"
    /\ pc = "done" => ret.bytes = loc.e1

C4_Witness ==
    /\ pc = "done"
    /\ ret.bytes = loc.e1
    /\ Len(sp.engine_id) > 255
    /\ sp.engine_boots = 128
    /\ sp.engine_time = MaxI32
    /\ sp.username = Username
    /\ sp.priv_params = Long

MalformedFamilies == {"prefix", "trailing", "notseq", "count", "tag"}

\* C5: decode returns Err(MalformedSecurityParams) and no record for an
\* input that is empty, a proper prefix of a valid encoding, not a SEQUENCE,
\* a SEQUENCE of fewer or more than six elements, a SEQUENCE followed by more
\* bytes, or one with an element under another tag than its position expects;
\* and whenever decode fails, that is the error.
C5_MalformedOnly ==
    op = "decode" =>
        /\ arg.fam \in MalformedFamilies => ret.kind = "Err"
        /\ ret.kind = "Err" => (ret = Malformed /\ sp = NoRecord)
        /\ ret.kind = "Ok" => sp = ret.val

C5_Witness ==
    /\ op = "decode"
    /\ arg.fam = "trailing"
    /\ arg.bytes = Sample \o <<4, 0>>
    /\ ret = Malformed
    /\ sp = NoRecord

\* C6: new() and discovery() give the record with four empty byte fields and
\* both counters 0, and encoding that record gives the 16 bytes
\* 30 0E 04 00 02 01 00 02 01 00 04 00 04 00 04 00.
C6_DiscoveryForm ==
    /\ op \in {"new", "discovery"} => sp = Empty
    /\ (op = "encode" /\ sp = Empty) => ret.bytes = DiscoveryExpected

C6_Witness ==
    /\ op = "encode"
    /\ sp = Empty
    /\ ret.bytes = DiscoveryExpected
    /\ Len(ret.bytes) = 16

\* C7: after decode(x).unwrap(), set_username(n), set_auth_params_placeholder()
\* and encode(), the bytes are the DER SEQUENCE of x's engine_id, engine_boots
\* and engine_time, of n, of twelve zero bytes, and of x's priv_params; for
\* the 35-byte sample and n = "username" they are the 55 bytes of the test.
C7_DecodeSetEncode ==
    pc = "done" =>
        /\ ret.bytes = Wire(Elements(loc.x.e, loc.x.bc, loc.x.tc, loc.n,
                                     <<0, 0, 0, 0, 0, 0, 0, 0, 0, 0, 0, 0>>, loc.x.p, "der"),
                            "der")
        /\ (loc.x.bytes = Sample /\ loc.n = Username) => ret.bytes = SampleExpected

C7_Witness ==
    /\ pc = "done"
    /\ loc.x.bytes = Sample
    /\ loc.n = Username
    /\ ret.bytes = SampleExpected

Setter ==
    [set_engine_id |-> "engine_id", set_username |-> "username",
     set_auth_params |-> "auth_params", set_auth_params_placeholder |-> "auth_params",
     set_priv_params |-> "priv_params"]

\* C8: a byte-field setter leaves its field equal to its argument (twelve
\* zero bytes for the placeholder setter) and the other five fields as
\* they were.
C8_ByteSetterFrame ==
    op \in DOMAIN Setter =>
        /\ sp[Setter[op]] = (IF op = "set_auth_params_placeholder"
                             THEN <<0, 0, 0, 0, 0, 0, 0, 0, 0, 0, 0, 0>> ELSE arg)
        /\ \A f \in Fields \ {Setter[op]} : sp[f] = pre[f]

C8_Witness ==
    /\ op = "set_engine_id"
    /\ arg = <<>>
    /\ pre.engine_id = SampleEngineId
    /\ pre.username = <<117>>
    /\ pre.auth_params = AUTH_PARAMS_PLACEHOLDER
    /\ pre.engine_time = 99836
    /\ sp.engine_id = <<>>

\* C9: decode(encode(r)) = Ok(r) for every record r the client can hold, a
\* decode of bytes just encoded returns the record that was encoded, and two
\* records that differ do not encode to the same bytes.
C9_DecodeInvertsEncode ==
    /\ decode(encode(sp)) = Ok(sp)
    /\ (op = "decode" /\ arg.fam = "encoded") => ret = Ok(pre)
    /\ (pre # NoRecord /\ pre # sp) => encode(pre) # encode(sp)

C9_Witness ==
    /\ op = "decode"
    /\ arg.fam = "encoded"
    /\ ret = Ok(sp)
    /\ sp.engine_id = SampleEngineId
    /\ sp.engine_boots = MaxI32
    /\ sp.username = <<117>>
    /\ sp.auth_params = AUTH_PARAMS_PLACEHOLDER

\* C10: decode of a six-element SEQUENCE with a counter above 2^31 - 1 or
\* below -2^31 returns Err(MalformedSecurityParams); a counter of a decoded
\* record is in 0 .. 2^31 - 1 and is the integer on the wire.
C10_CounterRange ==
    (op = "decode" /\ arg.fam = "six") =>
        /\ (~WireFitsI32(arg.bc) \/ ~WireFitsI32(arg.tc)) => ret = Malformed
        /\ ret.kind = "Ok" =>
            /\ 0 <= ret.val.engine_boots /\ ret.val.engine_boots <= MaxI32
            /\ 0 <= ret.val.engine_time /\ ret.val.engine_time <= MaxI32
            /\ ret.val.engine_boots = WireValue(arg.bc)
            /\ ret.val.engine_time = WireValue(arg.tc)

C10_Witness ==
    /\ op = "decode"
    /\ arg.fam = "six"
    /\ arg.bc = <<1, 0, 0, 0, 24>>
    /\ arg.tc = <<0>>
    /\ arg.form = "der"
    /\ ret = Malformed

====
